---- MODULE Spec2Model ----
(***************************************************************************)
(* Model of the placeholder-resolution pipeline of generateDocxWithLLM.js   *)
(* and of its command-line entry point scripts/run-example.js.              *)
(*                                                                          *)
(* Strings are sequences of one-character strings.  Indices passed to and   *)
(* returned by the string operators are 0-based, as in JavaScript; -1 is    *)
(* "not found".                                                             *)
(***************************************************************************)
EXTENDS Integers, Sequences, FiniteSets, TLC

VARIABLES
    pc,                 \* position of the run
    provider,           \* "openai" | "azure"
    template,           \* word/document.xml as stored in the template
    xml,                \* the local xml of generateDocxWithLLM
    placeholders,       \* sequence of [id, raw]
    plainText,          \* stripXml(xml)
    placeholderContext, \* sequence of [id, raw, marker, sentence, contextWindow]
    counter,            \* the placeholder counter of the extraction callback
    windowSize,         \* third argument of extractContextWindow
    requests,           \* chat-completion requests issued so far
    batchResponse,      \* the model's reply
    json,               \* text returned by extractFirstJsonObject
    parsed,             \* JSON.parse(json)
    resolved,           \* entries of the resolved object, in insertion order
    si,                 \* entries of resolved already substituted
    zipEntry,           \* word/document.xml inside the zip object
    buffer,             \* value returned by generateDocxWithLLM
    outputFile,         \* file written by run-example
    error               \* what was thrown, "none" if nothing

vars == <<pc, provider, template, xml, placeholders, plainText,
          placeholderContext, counter, windowSize, requests, batchResponse,
          json, parsed, resolved, si, zipEntry, buffer, outputFile, error>>

(***************************************************************************)
(* JavaScript string primitives                                             *)
(***************************************************************************)

\* characters matched by \s and removed by trim()
Whitespace == {" ", "\t", "\n"}

MinOf(S) == CHOOSE x \in S : \A y \in S : x <= y
MaxOf(S) == CHOOSE x \in S : \A y \in S : y <= x

\* String.prototype.slice(a, b) for 0 <= a, b <= length
slice(s, a, b) == IF a >= b THEN <<>> ELSE SubSeq(s, a + 1, b)

\* m occurs in s at 0-based index i
occursAt(s, m, i) ==
    /\ i >= 0
    /\ i + Len(m) <= Len(s)
    /\ \A k \in 1..Len(m) : s[i + k] = m[k]

\* String.prototype.indexOf(m, from)
indexOf(s, m, from) ==
    LET c == {i \in from..(Len(s) - Len(m)) : occursAt(s, m, i)}
    IN  IF c = {} THEN -1 ELSE MinOf(c)

\* String.prototype.lastIndexOf(m, from)
lastIndexOf(s, m, from) ==
    LET c == {i \in 0..from : occursAt(s, m, i)}
    IN  IF c = {} THEN -1 ELSE MaxOf(c)

\* m is a substring of s
includes(s, m) == indexOf(s, m, 0) # -1

RECURSIVE trimStart(_)
trimStart(s) ==
    IF s # <<>> /\ Head(s) \in Whitespace THEN trimStart(Tail(s)) ELSE s

RECURSIVE trimEnd(_)
trimEnd(s) ==
    IF s # <<>> /\ s[Len(s)] \in Whitespace
    THEN trimEnd(SubSeq(s, 1, Len(s) - 1))
    ELSE s

\* String.prototype.trim()
trim(s) == trimEnd(trimStart(s))

\* s.replace(/\s+/g, " ")
RECURSIVE collapseWhitespace(_)
collapseWhitespace(s) ==
    IF s = <<>> THEN <<>>
    ELSE IF Head(s) \in Whitespace
         THEN <<" ">> \o collapseWhitespace(trimStart(s))
         ELSE <<Head(s)>> \o collapseWhitespace(Tail(s))

\* s.replace(/<[^>]+>/g, ""), scanning from 0-based index i
RECURSIVE removeTagsFrom(_, _)
removeTagsFrom(s, i) ==
    IF i >= Len(s) THEN <<>>
    ELSE LET close == indexOf(s, <<">">>, i + 1)
         IN  IF s[i + 1] = "<" /\ close > i + 1
             THEN removeTagsFrom(s, close + 1)
             ELSE <<s[i + 1]>> \o removeTagsFrom(s, i + 1)

removeTags(s) == removeTagsFrom(s, 0)

\* a wrong order of the three steps of stripXml
stripXmlCollapseFirst(s) == removeTags(trim(collapseWhitespace(s)))

stripXml(s) == trim(collapseWhitespace(removeTags(s)))

(***************************************************************************)
(* Placeholder extraction (step 2 of generateDocxWithLLM)                   *)
(***************************************************************************)

Brackets == {"[", "]"}

Digits == <<"0", "1", "2", "3", "4", "5", "6", "7", "8", "9">>

\* the decimal text of a natural number, as a template literal renders it
RECURSIVE ToDecimal(_)
ToDecimal(n) ==
    IF n < 10 THEN <<Digits[n + 1]>>
    ELSE ToDecimal(n \div 10) \o <<Digits[(n % 10) + 1]>>

\* the template literal PH_${counter}
phId(n) == <<"P", "H", "_">> \o ToDecimal(n)

\* the template literal [${id}]
markerOf(id) == <<"[">> \o id \o <<"]">>

\* first 0-based index >= from holding a bracket, -1 if none
firstBracketFrom(s, from) ==
    LET c == {i \in from..(Len(s) - 1) : s[i + 1] \in Brackets}
    IN  IF c = {} THEN -1 ELSE MinOf(c)

\* xml.replace(/\[([^\[\]]+)\]/g, callback) scanning from 0-based index i
\* with the callback's counter at n
RECURSIVE replacePlaceholdersFrom(_, _, _)
replacePlaceholdersFrom(s, i, n) ==
    IF i >= Len(s) THEN [xml |-> <<>>, placeholders |-> <<>>, counter |-> n]
    ELSE LET close == firstBracketFrom(s, i + 1)
         IN  IF s[i + 1] = "[" /\ close > i + 1 /\ s[close + 1] = "]"
             THEN LET id   == phId(n)
                      rest == replacePlaceholdersFrom(s, close + 1, n + 1)
                  IN  [xml          |-> markerOf(id) \o rest.xml,
                       placeholders |-> <<[id  |-> id,
                                           raw |-> slice(s, i + 1, close)]>>
                                        \o rest.placeholders,
                       counter      |-> rest.counter]
             ELSE LET rest == replacePlaceholdersFrom(s, i + 1, n)
                  IN  [xml          |-> <<s[i + 1]>> \o rest.xml,
                       placeholders |-> rest.placeholders,
                       counter      |-> rest.counter]

\* let counter = 1
counterStart == 1

\* a counter kept outside the call: it goes on from where the last run left it
counterKept == counter

\* the value the callback's counter has when the scan begins
counterAtScan == counterStart

(***************************************************************************)
(* Context building (steps 3 and 4)                                         *)
(***************************************************************************)

\* the ideographic full stop U+3002, one character
JpStop == "U+3002"

\* a sentence that begins at the marker instead of after the terminator
extractSentenceFromMarker(text, marker) ==
    LET idx == indexOf(text, marker, 0)
    IN  IF idx = -1 THEN <<>>
        ELSE LET jpEnd == indexOf(text, <<JpStop>>, idx + Len(marker))
                 enEnd == indexOf(text, <<".">>, idx + Len(marker))
                 ends  == {jpEnd, enEnd} \ {-1}
                 end   == IF ends # {} THEN MinOf(ends) + 1 ELSE Len(text)
             IN  trim(slice(text, idx + 1, end))

extractSentence(text, marker) ==
    LET idx == indexOf(text, marker, 0)
    IN  IF idx = -1 THEN <<>>
        ELSE LET leftBound == MaxOf({lastIndexOf(text, <<JpStop>>, idx),
                                     lastIndexOf(text, <<".">>, idx)})
                 start == IF leftBound = -1 THEN 0 ELSE leftBound + 1
                 jpEnd == indexOf(text, <<JpStop>>, idx + Len(marker))
                 enEnd == indexOf(text, <<".">>, idx + Len(marker))
                 ends  == {jpEnd, enEnd} \ {-1}
                 end   == IF ends # {} THEN MinOf(ends) + 1 ELSE Len(text)
             IN  trim(slice(text, start, end))

\* a window that forgets the marker's own length on the right
extractContextWindowShort(text, marker, w) ==
    LET idx == indexOf(text, marker, 0)
    IN  IF idx = -1 THEN <<>>
        ELSE LET start == MaxOf({0, idx - w})
                 end   == MinOf({Len(text), idx + w})
             IN  trim(collapseWhitespace(slice(text, start, end)))

extractContextWindow(text, marker, w) ==
    LET idx == indexOf(text, marker, 0)
    IN  IF idx = -1 THEN <<>>
        ELSE LET start == MaxOf({0, idx - w})
                 end   == MinOf({Len(text), idx + Len(marker) + w})
             IN  trim(collapseWhitespace(slice(text, start, end)))

\* extractContextWindow(plainText, marker, 200)
WindowSize == 200

\* placeholders.map((ph) => ({id, raw, marker, sentence, contextWindow}))
buildContexts(phs, text, w) ==
    [i \in 1..Len(phs) |->
        LET marker == markerOf(phs[i].id)
        IN  [id            |-> phs[i].id,
             raw           |-> phs[i].raw,
             marker        |-> marker,
             sentence      |-> extractSentence(text, marker),
             contextWindow |-> extractContextWindow(text, marker, w)]]

(***************************************************************************)
(* Response parsing (parseBatchResponse, extractFirstJsonObject)            *)
(***************************************************************************)

\* the for loop of extractFirstJsonObject at index i with the depth reached
\* before text[i]; the index of the brace that brings depth to 0, -1 if none
RECURSIVE scanBraces(_, _, _)
scanBraces(text, i, depth) ==
    IF i >= Len(text) THEN -1
    ELSE LET ch == text[i + 1]
             d1 == IF ch = "{" THEN depth + 1 ELSE depth
             d2 == IF ch = "}" THEN d1 - 1 ELSE d1
         IN  IF d2 = 0 THEN i ELSE scanBraces(text, i + 1, d2)

\* a reply without any brace is taken for an empty object
extractFirstJsonObjectLenient(text) ==
    LET start == indexOf(text, <<"{">>, 0)
        end   == IF start = -1 THEN -1 ELSE scanBraces(text, start, 0)
    IN  IF end = -1
        THEN [ok |-> TRUE, json |-> <<"{", "}">>, error |-> "none"]
        ELSE [ok |-> TRUE, json |-> slice(text, start, end + 1), error |-> "none"]

extractFirstJsonObject(text) ==
    LET start == indexOf(text, <<"{">>, 0)
    IN  IF start = -1
        THEN [ok |-> FALSE, json |-> <<>>, error |-> "no-json-object"]
        ELSE LET end == scanBraces(text, start, 0)
             IN  IF end = -1
                 THEN [ok |-> FALSE, json |-> <<>>, error |-> "incomplete-json-object"]
                 ELSE [ok |-> TRUE, json |-> slice(text, start, end + 1),
                       error |-> "none"]

(***************************************************************************)
(* JSON.parse, for the JSON texts made of objects, strings without escape   *)
(* sequences, unsigned integers and null; any other text is a SyntaxError.  *)
(* A parse result holds val = [t, s], the typeof of the value ("string",    *)
(* "number", "object") with the text of a string or number, and, for an     *)
(* object, members: the sequence of its [key, val] in text order.           *)
(***************************************************************************)

JsonWhitespace == {" ", "\t", "\n"}
JsonDigits == {"0", "1", "2", "3", "4", "5", "6", "7", "8", "9"}
JsonUndefined == [t |-> "undefined", s |-> <<>>]
JsonFail == [ok |-> FALSE, next |-> 0, val |-> JsonUndefined, members |-> <<>>]

\* first 0-based index >= i that holds no whitespace (Len(t) if none)
RECURSIVE jsonSkip(_, _)
jsonSkip(t, i) ==
    IF i < Len(t) /\ t[i + 1] \in JsonWhitespace THEN jsonSkip(t, i + 1) ELSE i

\* a string literal whose opening quote is at i
jsonString(t, i) ==
    IF ~(i < Len(t) /\ t[i + 1] = "\"") THEN JsonFail
    ELSE LET close == indexOf(t, <<"\"">>, i + 1)
         IN  IF close = -1 THEN JsonFail
             ELSE IF \E k \in (i + 2)..close : t[k] \in {"\\", "\n", "\t"}
                  THEN JsonFail
                  ELSE [ok |-> TRUE, next |-> close + 1,
                        val |-> [t |-> "string", s |-> slice(t, i + 1, close)],
                        members |-> <<>>]

\* an unsigned integer that begins at i
jsonNumber(t, i) ==
    LET stop == {k \in i..Len(t) : k = Len(t) \/ t[k + 1] \notin JsonDigits}
        end  == MinOf(stop)
    IN  IF end = i \/ (end > i + 1 /\ t[i + 1] = "0") THEN JsonFail
        ELSE [ok |-> TRUE, next |-> end,
              val |-> [t |-> "number", s |-> slice(t, i, end)],
              members |-> <<>>]

RECURSIVE jsonValue(_, _), jsonMembers(_, _, _)

\* the members of an object from i on, i just after "{" or ","
jsonMembers(t, i, acc) ==
    LET k == jsonString(t, jsonSkip(t, i))
    IN  IF ~k.ok THEN JsonFail
        ELSE LET colon == jsonSkip(t, k.next)
             IN  IF ~(colon < Len(t) /\ t[colon + 1] = ":") THEN JsonFail
                 ELSE LET v == jsonValue(t, jsonSkip(t, colon + 1))
                      IN  IF ~v.ok THEN JsonFail
                          ELSE LET sep  == jsonSkip(t, v.next)
                                   acc1 == Append(acc, [key |-> k.val.s,
                                                        val |-> v.val])
                               IN  IF sep >= Len(t) THEN JsonFail
                                   ELSE IF t[sep + 1] = ","
                                        THEN jsonMembers(t, sep + 1, acc1)
                                        ELSE IF t[sep + 1] = "}"
                                             THEN [ok |-> TRUE, next |-> sep + 1,
                                                   val |-> [t |-> "object",
                                                            s |-> <<>>],
                                                   members |-> acc1]
                                             ELSE JsonFail

\* a value that begins at i
jsonValue(t, i) ==
    IF i >= Len(t) THEN JsonFail
    ELSE IF t[i + 1] = "\"" THEN jsonString(t, i)
    ELSE IF t[i + 1] \in JsonDigits THEN jsonNumber(t, i)
    ELSE IF occursAt(t, <<"n", "u", "l", "l">>, i)
         THEN [ok |-> TRUE, next |-> i + 4,
               val |-> [t |-> "object", s |-> <<>>], members |-> <<>>]
    ELSE IF t[i + 1] = "{"
         THEN LET j == jsonSkip(t, i + 1)
              IN  IF j < Len(t) /\ t[j + 1] = "}"
                  THEN [ok |-> TRUE, next |-> j + 1,
                        val |-> [t |-> "object", s |-> <<>>], members |-> <<>>]
                  ELSE jsonMembers(t, i + 1, <<>>)
    ELSE JsonFail

\* JSON.parse(text): the value, provided nothing but whitespace follows it
JSONParse(text) ==
    LET v == jsonValue(text, jsonSkip(text, 0))
    IN  IF v.ok /\ jsonSkip(text, v.next) = Len(text)
        THEN [ok |-> TRUE, val |-> v.val, members |-> v.members]
        ELSE [ok |-> FALSE, val |-> JsonUndefined, members |-> <<>>]

\* parsed[key] on a parsed object: the value of the last member with that
\* key, undefined when there is none
getProperty(members, key) ==
    LET at == {i \in 1..Len(members) : members[i].key = key}
    IN  IF at = {} THEN JsonUndefined ELSE members[MaxOf(at)].val

\* the typeof test left out: whatever is there is used
resolvedValueUntyped(value) == value.s

\* typeof value === "string" ? value : ""
resolvedValue(value) == IF value.t = "string" THEN value.s ELSE <<>>

\* resolved[id] = value on the entries of resolved
setEntry(entries, id, value) ==
    IF \E i \in 1..Len(entries) : entries[i].id = id
    THEN [i \in 1..Len(entries) |->
             IF entries[i].id = id THEN [id |-> id, value |-> value]
             ELSE entries[i]]
    ELSE Append(entries, [id |-> id, value |-> value])

\* the for loop of parseBatchResponse from the n-th placeholder on
RECURSIVE resolveFrom(_, _, _, _)
resolveFrom(members, contexts, n, acc) ==
    IF n > Len(contexts) THEN acc
    ELSE resolveFrom(members, contexts, n + 1,
             setEntry(acc, contexts[n].id,
                      resolvedValue(getProperty(members, contexts[n].id))))

parseBatchResponse(text, contexts) ==
    LET first == extractFirstJsonObject(text)
        value == JSONParse(first.json)
    IN  IF ~first.ok
        THEN [ok |-> FALSE, error |-> first.error, json |-> <<>>,
              parsed |-> <<>>, resolved |-> <<>>]
        ELSE IF ~value.ok
             THEN [ok |-> FALSE, error |-> "SyntaxError", json |-> first.json,
                   parsed |-> <<>>, resolved |-> <<>>]
             ELSE [ok |-> TRUE, error |-> "none", json |-> first.json,
                   parsed |-> value.members,
                   resolved |-> resolveFrom(value.members, contexts, 1, <<>>)]

(***************************************************************************)
(* Substitution (step 5): String.prototype.replace with a string pattern    *)
(***************************************************************************)

\* the grave accent U+0060 and the apostrophe U+0027, one character each
Backtick == "U+0060"
Apostrophe == "U+0027"

\* GetSubstitution for a pattern without capture groups: $$, $&, $ with a
\* grave accent and $ with an apostrophe are expanded, every other character
\* stands for itself
RECURSIVE getSubstitution(_, _, _, _)
getSubstitution(matched, before, after, r) ==
    IF r = <<>> THEN <<>>
    ELSE IF Head(r) = "$" /\ Len(r) >= 2 /\ r[2] \in {"$", "&", Backtick, Apostrophe}
         THEN (CASE r[2] = "$" -> <<"$">>
                 [] r[2] = "&" -> matched
                 [] r[2] = Backtick -> before
                 [] r[2] = Apostrophe -> after)
              \o getSubstitution(matched, before, after, Tail(Tail(r)))
         ELSE <<Head(r)>> \o getSubstitution(matched, before, after, Tail(r))

\* s.replace(pattern, value): the first occurrence only
replaceFirst(s, pattern, value) ==
    LET idx == indexOf(s, pattern, 0)
    IN  IF idx = -1 THEN s
        ELSE LET before == slice(s, 0, idx)
                 after  == slice(s, idx + Len(pattern), Len(s))
             IN  before \o getSubstitution(pattern, before, after, value) \o after

(***************************************************************************)
(* Bounded strings                                                          *)
(***************************************************************************)

RECURSIVE Concat(_)
Concat(ss) == IF ss = <<>> THEN <<>> ELSE Head(ss) \o Concat(Tail(ss))

\* all concatenations of at most n pieces of P
Strings(P, n) == {Concat(ps) : ps \in UNION {[1..k -> P] : k \in 0..n}}

NoValue == <<"(none)">>

\* variables of the model call and of the parse
llmVars == <<requests, batchResponse, json, parsed, resolved, si>>
\* variables of the container and of the files
outVars == <<zipEntry, buffer, outputFile>>

InitRest ==
    /\ provider = "openai"
    /\ placeholders = <<>>
    /\ placeholderContext = <<>>
    /\ counter = counterStart
    /\ windowSize = WindowSize
    /\ requests = 0
    /\ batchResponse = NoValue
    /\ json = NoValue
    /\ parsed = <<>>
    /\ resolved = <<>>
    /\ si = 0
    /\ zipEntry = NoValue
    /\ buffer = NoValue
    /\ outputFile = NoValue
    /\ error = "none"

(***************************************************************************)
(* Normalisation on its own: stripXml applied once, then again              *)
(***************************************************************************)

MaxStripLen == 5
StripAlphabet == {<<"<">>, <<">">>, <<"a">>, <<" ">>, <<"\n">>}

InitStrip ==
    /\ pc = "input"
    /\ template \in Strings(StripAlphabet, MaxStripLen)
    /\ xml = template
    /\ plainText = NoValue
    /\ InitRest

StripOnce ==
    /\ pc = "input"
    /\ plainText' = stripXml(xml)
    /\ pc' = "normalized"
    /\ UNCHANGED <<provider, template, xml, placeholders, placeholderContext,
                   counter, windowSize, llmVars, outVars, error>>

\* the output of the first pass is fed to stripXml again; xml keeps it
StripAgain ==
    /\ pc = "normalized"
    /\ xml' = plainText
    /\ plainText' = stripXml(plainText)
    /\ pc' = "renormalized"
    /\ UNCHANGED <<provider, template, placeholders, placeholderContext,
                   counter, windowSize, llmVars, outVars, error>>

NextStrip == StripOnce \/ StripAgain

SpecStrip == InitStrip /\ [][NextStrip]_vars

\* s holds an angle-bracket tag: a "<", at least one character, a ">"
HasTag(s) ==
    \E i, j \in 1..Len(s) :
        /\ s[i] = "<"
        /\ j > i + 1
        /\ s[j] = ">"
        /\ \A k \in (i + 1)..(j - 1) : s[k] # ">"

\* the characters of s that are not whitespace, each preceded by one space
\* where whitespace separated it from the previous one in s
SpaceNormalForm(s) ==
    LET keep == {i \in 1..Len(s) : s[i] \notin Whitespace}
        first == IF keep = {} THEN 0 ELSE MinOf(keep)
        piece(i) == IF i \notin keep THEN <<>>
                    ELSE IF i # first /\ s[i - 1] \in Whitespace
                         THEN <<" ", s[i]>>
                         ELSE <<s[i]>>
    IN  Concat([i \in 1..Len(s) |-> piece(i)])

\* C8: stripXml(stripXml(x)) = stripXml(x) for every x, and on an input
\* without a tag stripXml returns the input with each whitespace run turned
\* into one space and the ends trimmed, every other character kept.
C8_IdempotentNormalization ==
    /\ pc = "normalized" /\ ~HasTag(template)
          => plainText = SpaceNormalForm(template)
    /\ pc = "renormalized" => plainText = xml

\* a second pass over a text that lost a tag and a run of whitespace
C8_Witness ==
    /\ pc = "renormalized"
    /\ HasTag(template)
    /\ \E i \in 1..Len(template) : template[i] \in Whitespace
    /\ plainText = xml
    /\ plainText # <<>>

(***************************************************************************)
(* Steps 2 to 4 of generateDocxWithLLM                                      *)
(***************************************************************************)

\* step 2: xml = xml.replace(PLACEHOLDER_REGEX, callback)
NormalizePlaceholders ==
    /\ pc = "loaded"
    /\ LET r == replacePlaceholdersFrom(xml, 0, counterAtScan)
       IN  /\ xml' = r.xml
           /\ placeholders' = r.placeholders
           /\ counter' = r.counter
    /\ pc' = "extracted"
    /\ UNCHANGED <<provider, template, plainText, placeholderContext,
                   windowSize, llmVars, outVars, error>>

\* step 3: plainText = stripXml(xml)
ExtractPlainText ==
    /\ pc = "extracted"
    /\ plainText' = stripXml(xml)
    /\ pc' = "stripped"
    /\ UNCHANGED <<provider, template, xml, placeholders, placeholderContext,
                   counter, windowSize, llmVars, outVars, error>>

\* step 4, first half: placeholderContext = placeholders.map(...)
BuildContexts ==
    /\ pc = "stripped"
    /\ placeholderContext' = buildContexts(placeholders, plainText, windowSize)
    /\ pc' = "contexts"
    /\ UNCHANGED <<provider, template, xml, placeholders, plainText, counter,
                   windowSize, llmVars, outVars, error>>

(***************************************************************************)
(* Extraction and context building on their own, over many markups          *)
(***************************************************************************)

MaxPieces == 4
MarkupPieces == {<<"[", "a", "]">>, <<"[">>, <<"]">>, <<"b">>,
                 <<"<">>, <<">">>, <<" ">>, <<".">>, <<JpStop>>}

InitExtract ==
    /\ pc = "loaded"
    /\ template \in Strings(MarkupPieces, MaxPieces)
    /\ xml = template
    /\ plainText = NoValue
    /\ InitRest

\* a second call on the same template runs step 2 again from the stored markup
ExtractAgain ==
    /\ pc = "extracted"
    /\ LET r == replacePlaceholdersFrom(template, 0, counterAtScan)
       IN  /\ xml' = r.xml
           /\ placeholders' = r.placeholders
           /\ counter' = r.counter
    /\ pc' = "reextracted"
    /\ UNCHANGED <<provider, template, plainText, placeholderContext,
                   windowSize, llmVars, outVars, error>>

NextExtract ==
    \/ NormalizePlaceholders
    \/ ExtractAgain
    \/ ExtractPlainText
    \/ BuildContexts

SpecExtract == InitExtract /\ [][NextExtract]_vars

\* 1-based positions of s where a bracketed token begins
TokenStarts(s) ==
    {i \in 1..Len(s) :
        /\ s[i] = "["
        /\ \E j \in (i + 2)..Len(s) :
              /\ s[j] = "]"
              /\ \A k \in (i + 1)..(j - 1) : s[k] \notin Brackets}

\* position of the closing bracket of the token that begins at i
TokenEnd(s, i) == MinOf({j \in (i + 1)..Len(s) : s[j] \in Brackets})

\* the token start that has n - 1 token starts to its left
NthToken(s, n) ==
    CHOOSE t \in TokenStarts(s) :
        Cardinality({u \in TokenStarts(s) : u <= t}) = n

\* the identifier the n-th token is expected to get, for n < 10
ExpectedId(n) == <<"P", "H", "_", Digits[n + 1]>>

ExpectedPlaceholders(s) ==
    [n \in 1..Cardinality(TokenStarts(s)) |->
        [id  |-> ExpectedId(n),
         raw |-> SubSeq(s, NthToken(s, n) + 1, TokenEnd(s, NthToken(s, n)) - 1)]]

\* s with each token replaced by the values of vals, in order
WithTokensReplaced(s, vals) ==
    LET piece(p) ==
            IF p \in TokenStarts(s)
            THEN vals[Cardinality({u \in TokenStarts(s) : u <= p})]
            ELSE IF \E t \in TokenStarts(s) : t < p /\ p <= TokenEnd(s, t)
                 THEN <<>>
                 ELSE <<s[p]>>
    IN  Concat([p \in 1..Len(s) |-> piece(p)])

ExpectedMarkup(s) ==
    WithTokensReplaced(s, [n \in 1..Cardinality(TokenStarts(s)) |->
                              <<"[">> \o ExpectedId(n) \o <<"]">>])

\* C1: extraction records one placeholder per bracketed token, with ids
\* PH_1..PH_k from left to right and raw the token's inner text, and rewrites
\* the markup by replacing the i-th token with [PH_i] and nothing else (no
\* token: markup unchanged, list empty); a second run on the same input gives
\* the same ids and the same markup.
C1_Extraction ==
    pc \in {"extracted", "reextracted"} =>
        /\ placeholders = ExpectedPlaceholders(template)
        /\ xml = ExpectedMarkup(template)
        /\ TokenStarts(template) = {} => xml = template /\ placeholders = <<>>

\* a second run over a markup with two tokens and text outside them
C1_Witness ==
    /\ pc = "reextracted"
    /\ Len(placeholders) = 2
    /\ placeholders[2].id = <<"P", "H", "_", "2">>
    /\ Len(template) > 6

\* the marker at 0-based [a, b) of s lies inside an angle-bracket tag: some
\* "<" before it has no ">" between itself and the marker, and a ">" follows
InsideTag(s, a, b) ==
    /\ \E p \in 1..a : s[p] = "<" /\ \A q \in (p + 1)..a : s[q] # ">"
    /\ \E q \in (b + 1)..Len(s) : s[q] = ">"

MarkerInContexts(c) ==
    /\ includes(plainText, c.marker)
    /\ includes(c.sentence, c.marker)
    /\ includes(c.contextWindow, c.marker)

\* C6 as stated: the marker of every extracted placeholder is found in the
\* plain text and is a substring of its sentence and of its contextWindow.
C6_MarkerAlwaysInContexts ==
    pc = "contexts" =>
        \A i \in 1..Len(placeholderContext) :
            MarkerInContexts(placeholderContext[i])

\* C6 amended: the same for every placeholder whose marker does not lie
\* inside an angle-bracket tag of the marker-bearing markup; a marker that is
\* not found in the plain text leaves both fields empty.
C6_MarkerInContextsOutsideTags ==
    pc = "contexts" =>
        \A i \in 1..Len(placeholderContext) :
            LET c == placeholderContext[i]
                a == indexOf(xml, c.marker, 0)
            IN  /\ a # -1
                /\ ~InsideTag(xml, a, a + Len(c.marker))
                       => MarkerInContexts(c)
                /\ ~includes(plainText, c.marker)
                       => c.sentence = <<>> /\ c.contextWindow = <<>>

\* a placeholder next to a tag and a sentence terminator, found in both fields
C6_Witness ==
    /\ pc = "contexts"
    /\ Len(placeholderContext) = 1
    /\ HasTag(xml)
    /\ includes(xml, <<".">>)
    /\ MarkerInContexts(placeholderContext[1])

(***************************************************************************)
(* extractSentence and extractContextWindow on their own, over many texts   *)
(* and window sizes                                                         *)
(***************************************************************************)

MaxTextPieces == 4
MaxWindow == 2
TextPieces == {markerOf(phId(1)), <<" ">>, <<"\n">>, <<".">>, <<JpStop>>, <<"a">>}

InitContext ==
    /\ pc = "stripped"
    /\ template = <<>>
    /\ xml = <<>>
    /\ plainText \in Strings(TextPieces, MaxTextPieces)
    /\ provider = "openai"
    /\ placeholders = <<[id |-> phId(1), raw |-> <<"a">>]>>
    /\ placeholderContext = <<>>
    /\ counter = counterStart
    /\ windowSize \in 0..MaxWindow
    /\ requests = 0
    /\ batchResponse = NoValue
    /\ json = NoValue
    /\ parsed = <<>>
    /\ resolved = <<>>
    /\ si = 0
    /\ zipEntry = NoValue
    /\ buffer = NoValue
    /\ outputFile = NoValue
    /\ error = "none"

NextContext == BuildContexts

SpecContext == InitContext /\ [][NextContext]_vars

Terminators == {".", JpStop}

\* 0-based start of the sentence span around a marker at idx: just after the
\* nearest terminator before the marker, or the start of the text
SpanStart(text, idx) ==
    LET before == {p \in 1..idx : text[p] \in Terminators}
    IN  IF before = {} THEN 0 ELSE MaxOf(before)

\* 0-based end of the sentence span around a marker that ends at e: just
\* after the nearest terminator behind the marker, or the end of the text
SpanEnd(text, e) ==
    LET after == {p \in (e + 1)..Len(text) : text[p] \in Terminators}
    IN  IF after = {} THEN Len(text) ELSE MinOf(after)

\* the window of size w reaches both ends of the sentence span
WindowCoversSentence(text, marker, w) ==
    LET idx == indexOf(text, marker, 0)
    IN  /\ idx # -1
        /\ idx - SpanStart(text, idx) <= w
        /\ SpanEnd(text, idx + Len(marker)) - (idx + Len(marker)) <= w

\* every run of whitespace in s is one space
SingleSpaced(s) ==
    /\ \A i \in 1..Len(s) : s[i] \in Whitespace => s[i] = " "
    /\ \A i \in 1..(Len(s) - 1) :
           ~(s[i] \in Whitespace /\ s[i + 1] \in Whitespace)

\* C7 as stated: for any text holding the marker, whenever the window reaches
\* both ends of the sentence span, the sentence is a substring of the window.
C7_SentenceInWindowAnyText ==
    pc = "contexts" =>
        \A i \in 1..Len(placeholderContext) :
            LET c == placeholderContext[i]
            IN  WindowCoversSentence(plainText, c.marker, windowSize)
                    => includes(c.contextWindow, c.sentence)

\* C7 amended: the same for any text whose whitespace runs are single
\* spaces, as every text returned by stripXml is.
C7_SentenceInWindowSingleSpaced ==
    pc = "contexts" /\ SingleSpaced(plainText) =>
        \A i \in 1..Len(placeholderContext) :
            LET c == placeholderContext[i]
            IN  WindowCoversSentence(plainText, c.marker, windowSize)
                    => includes(c.contextWindow, c.sentence)

\* a sentence between two terminators, inside a window that just reaches them
\* and is shorter than the text
C7_Witness ==
    /\ pc = "contexts"
    /\ SingleSpaced(plainText)
    /\ WindowCoversSentence(plainText, placeholderContext[1].marker, windowSize)
    /\ includes(placeholderContext[1].sentence, <<" ">>)
    /\ includes(placeholderContext[1].contextWindow,
                placeholderContext[1].sentence)
    /\ Len(placeholderContext[1].sentence) < Len(plainText)
    /\ windowSize < Len(plainText)

(***************************************************************************)
(* Step 4, second half, to step 6, and the entry point                      *)
(***************************************************************************)

\* the sequential strategy: one request per placeholder
completionRequestsPerPlaceholder(n, contexts) == n + Len(contexts)

\* requests issued once callLLM(batchPrompt, provider) has sent its request
completionRequests(n, contexts) == n + 1

\* run-example: a missing template or value-map path ends the process
RunExampleMissingArgs ==
    /\ pc = "start"
    /\ pc' = "exited"
    /\ error' = "missing-args"
    /\ UNCHANGED <<provider, template, xml, placeholders, plainText,
                   placeholderContext, counter, windowSize, llmVars, outVars>>

\* run-example: reading or parsing the value map throws
RunExampleValueMapFails ==
    /\ pc = "start"
    /\ pc' = "failed"
    /\ error' = "value-map"
    /\ UNCHANGED <<provider, template, xml, placeholders, plainText,
                   placeholderContext, counter, windowSize, llmVars, outVars>>

\* run-example calls generateDocxWithLLM(templatePath, valueMap, provider)
RunExampleCall ==
    /\ pc = "start"
    /\ pc' = "called"
    /\ UNCHANGED <<provider, template, xml, placeholders, plainText,
                   placeholderContext, counter, windowSize, llmVars, outVars,
                   error>>

\* step 1: the template is read and word/document.xml taken from the zip
LoadDocx ==
    /\ pc = "called"
    /\ zipEntry' = template
    /\ xml' = template
    /\ pc' = "loaded"
    /\ UNCHANGED <<provider, template, placeholders, plainText,
                   placeholderContext, counter, windowSize, llmVars, buffer,
                   outputFile, error>>

\* step 1 throws: the file cannot be read or is no docx
LoadDocxFails ==
    /\ pc = "called"
    /\ pc' = "failed"
    /\ error' = "container-read"
    /\ UNCHANGED <<provider, template, xml, placeholders, plainText,
                   placeholderContext, counter, windowSize, llmVars, outVars>>

\* callLLM: the client cannot be set up (no API key, no Azure token)
CallLLMSetupFails ==
    /\ pc = "contexts"
    /\ pc' = "failed"
    /\ error' = IF provider = "azure" THEN "azure-token" ELSE "api-key"
    /\ UNCHANGED <<provider, template, xml, placeholders, plainText,
                   placeholderContext, counter, windowSize, llmVars, outVars>>

\* callLLM: client.chat.completions.create is called and awaited
CallLLM ==
    /\ pc = "contexts"
    /\ requests' = completionRequests(requests, placeholderContext)
    /\ pc' = "awaiting"
    /\ UNCHANGED <<provider, template, xml, placeholders, plainText,
                   placeholderContext, counter, windowSize, batchResponse, json,
                   parsed, resolved, si, outVars, error>>

\* the request is rejected (network, authentication)
TransportFails ==
    /\ pc = "awaiting"
    /\ pc' = "failed"
    /\ error' = "transport"
    /\ UNCHANGED <<provider, template, xml, placeholders, plainText,
                   placeholderContext, counter, windowSize, llmVars, outVars>>

\* res.choices[0].message.content.trim() becomes batchResponse
ReceiveReply(content) ==
    /\ pc = "awaiting"
    /\ batchResponse' = trim(content)
    /\ pc' = "replied"
    /\ UNCHANGED <<provider, template, xml, placeholders, plainText,
                   placeholderContext, counter, windowSize, requests, json,
                   parsed, resolved, si, outVars, error>>

\* resolved = parseBatchResponse(batchResponse, placeholderContext)
ParseBatchResponse ==
    /\ pc = "replied"
    /\ LET r == parseBatchResponse(batchResponse, placeholderContext)
       IN  /\ json' = r.json
           /\ parsed' = r.parsed
           /\ resolved' = r.resolved
           /\ error' = r.error
           /\ pc' = IF r.ok THEN "parsed" ELSE "failed"
    /\ UNCHANGED <<provider, template, xml, placeholders, plainText,
                   placeholderContext, counter, windowSize, requests,
                   batchResponse, si, outVars>>

\* step 5, one turn of the loop over Object.entries(resolved)
SubstituteNext ==
    /\ pc = "parsed"
    /\ si < Len(resolved)
    /\ xml' = replaceFirst(xml, markerOf(resolved[si + 1].id),
                           resolved[si + 1].value)
    /\ si' = si + 1
    /\ UNCHANGED <<pc, provider, template, placeholders, plainText,
                   placeholderContext, counter, windowSize, requests,
                   batchResponse, json, parsed, resolved, outVars, error>>

\* step 6: zip.file(xmlPath, xml)
WriteBack ==
    /\ pc = "parsed"
    /\ si = Len(resolved)
    /\ zipEntry' = xml
    /\ pc' = "written"
    /\ UNCHANGED <<provider, template, xml, placeholders, plainText,
                   placeholderContext, counter, windowSize, llmVars, buffer,
                   outputFile, error>>

\* step 6: return zip.generate(...)
Generate ==
    /\ pc = "written"
    /\ buffer' = zipEntry
    /\ pc' = "returned"
    /\ UNCHANGED <<provider, template, xml, placeholders, plainText,
                   placeholderContext, counter, windowSize, llmVars, zipEntry,
                   outputFile, error>>

\* run-example: fs.writeFileSync(outputPath, buffer)
RunExampleWrite ==
    /\ pc = "returned"
    /\ outputFile' = buffer
    /\ pc' = "done"
    /\ UNCHANGED <<provider, template, xml, placeholders, plainText,
                   placeholderContext, counter, windowSize, llmVars, zipEntry,
                   buffer, error>>

(***************************************************************************)
(* Replies of the model                                                     *)
(***************************************************************************)

Quote(s) == <<"\"">> \o s \o <<"\"">>

\* the text of an object with the members ms, each <<key, value text>>
RECURSIVE MembersText(_)
MembersText(ms) ==
    IF ms = <<>> THEN <<>>
    ELSE Quote(ms[1][1]) \o <<":">> \o ms[1][2]
         \o (IF Len(ms) > 1 THEN <<",">> ELSE <<>>) \o MembersText(Tail(ms))

ObjectText(ms) == <<"{">> \o MembersText(ms) \o <<"}">>

\* replies that hold no complete object, and one whose braces balance around
\* something that is not JSON
MalformedReplies ==
    {<<>>,
     <<"s", "o", "r", "r", "y">>,
     <<"{">>,
     <<"{">> \o Quote(phId(1)) \o <<":">> \o Quote(<<"v">>),
     <<"{", "{", "}">>,
     <<"}", " ", "{">>,
     <<"{", "v", "}">>}

(***************************************************************************)
(* The whole run: run-example calling generateDocxWithLLM                   *)
(***************************************************************************)

MaxDocPieces == 3
DocPieces == {<<"[", "a", "]">>, <<"b", " ">>, <<"<", "w", ">">>}

\* value texts a reply may give to PH_1 and PH_2
DocValueTexts ==
    {Quote(<<"v">>), Quote(<<"$", "&">>), Quote(markerOf(phId(2))), <<"7">>}

\* replies: an object giving PH_1 and PH_2 a value or leaving them out, bare
\* or inside prose, and the malformed replies
DocReplies ==
    LET choice == DocValueTexts \cup {<<>>}
        member(n, v) == IF v = <<>> THEN <<>> ELSE <<<<phId(n), v>>>>
        objects == {ObjectText(member(1, v1) \o member(2, v2)) :
                        v1 \in choice, v2 \in choice}
    IN  objects
        \cup {<<"o", "k", ":", " ">> \o o \o <<" ", ".">> : o \in objects}
        \cup MalformedReplies

Init ==
    /\ pc = "start"
    /\ template \in Strings(DocPieces, MaxDocPieces)
    /\ xml = NoValue
    /\ plainText = NoValue
    /\ provider \in {"openai", "azure"}
    /\ placeholders = <<>>
    /\ placeholderContext = <<>>
    /\ counter = counterStart
    /\ windowSize = WindowSize
    /\ requests = 0
    /\ batchResponse = NoValue
    /\ json = NoValue
    /\ parsed = <<>>
    /\ resolved = <<>>
    /\ si = 0
    /\ zipEntry = NoValue
    /\ buffer = NoValue
    /\ outputFile = NoValue
    /\ error = "none"

Next ==
    \/ RunExampleMissingArgs
    \/ RunExampleValueMapFails
    \/ RunExampleCall
    \/ LoadDocx
    \/ LoadDocxFails
    \/ NormalizePlaceholders
    \/ ExtractPlainText
    \/ BuildContexts
    \/ CallLLMSetupFails
    \/ CallLLM
    \/ TransportFails
    \/ \E content \in DocReplies : ReceiveReply(content)
    \/ ParseBatchResponse
    \/ SubstituteNext
    \/ WriteBack
    \/ Generate
    \/ RunExampleWrite

Spec == Init /\ [][Next]_vars

\* the markers still stand in xml and nothing has been written or returned
NothingDone ==
    /\ si = 0
    /\ xml = ExpectedMarkup(template)
    /\ zipEntry = template
    /\ buffer = NoValue
    /\ outputFile = NoValue

\* number of positions from..to of text that hold ch
CountOf(text, ch, from, to) == Cardinality({i \in from..to : text[i] = ch})

\* text has no "{", or the braces from its first "{" on never balance
NoCompleteObject(text) ==
    LET opens == {i \in 1..Len(text) : text[i] = "{"}
    IN  \/ opens = {}
        \/ \A e \in MinOf(opens)..Len(text) :
               CountOf(text, "{", MinOf(opens), e)
                   # CountOf(text, "}", MinOf(opens), e)

\* C4: a reply with no "{", or whose braces from the first "{" on never
\* return to depth zero, makes the call fail with an error; no marker is
\* substituted, the markup entry is not written, and neither
\* generateDocxWithLLM nor run-example produces a document.
C4_MalformedReplyFails ==
    (batchResponse # NoValue /\ pc # "replied" /\ NoCompleteObject(batchResponse))
        => /\ pc = "failed"
           /\ error \in {"no-json-object", "incomplete-json-object"}
           /\ NothingDone

\* a reply that opens an object and never closes it, for a template with a
\* placeholder
C4_Witness ==
    /\ pc = "failed"
    /\ error = "incomplete-json-object"
    /\ includes(batchResponse, Quote(phId(1)))
    /\ Len(placeholders) >= 1
    /\ requests = 1
    /\ NothingDone

\* the resolved values, in placeholder order
ResolvedValues == [n \in 1..Len(resolved) |-> resolved[n].value]

\* C3: once the substitution loop has handled every id of the resolution
\* result, the markup holds none of the markers of the resolved placeholders
\* and each resolved value stands where its marker stood.
C3_SubstitutionComplete ==
    pc = "written" =>
        /\ \A n \in 1..Len(resolved) : ~includes(xml, markerOf(resolved[n].id))
        /\ xml = WithTokensReplaced(template, ResolvedValues)

\* the string the reply, read as one JSON object, gives to key
ReplyString(text, key) ==
    LET ms == JSONParse(text).members
    IN  ms[CHOOSE m \in 1..Len(ms) : ms[m].key = key].val.s

\* the reply is a JSON object that maps each of PH_1..PH_k to a string
ReplyMapsAll(text, k) ==
    /\ JSONParse(text).ok
    /\ \A n \in 1..k :
           \E m \in 1..Len(JSONParse(text).members) :
               /\ JSONParse(text).members[m].key = ExpectedId(n)
               /\ JSONParse(text).members[m].val.t = "string"

\* C5: when the reply is a JSON object giving each of PH_1..PH_k a string
\* v_i, the markup written back is the template with its i-th bracketed token
\* replaced by exactly v_i and every other character unchanged.
C5_EndToEnd ==
    (/\ batchResponse # NoValue
     /\ pc \notin {"replied", "parsed"}
     /\ ReplyMapsAll(batchResponse, Cardinality(TokenStarts(template))))
        => /\ pc \in {"written", "returned", "done"}
           /\ zipEntry = WithTokensReplaced(template,
                  [n \in 1..Cardinality(TokenStarts(template)) |->
                      ReplyString(batchResponse, ExpectedId(n))])

\* the call of generateDocxWithLLM has ended
CallEnded ==
    \/ pc \in {"returned", "done"}
    \/ pc = "failed" /\ error # "value-map"

\* the completion request has been sent
RequestSent ==
    \/ pc \in {"awaiting", "replied", "parsed", "written", "returned", "done"}
    \/ /\ pc = "failed"
       /\ error \in {"transport", "no-json-object", "incomplete-json-object",
                     "SyntaxError"}

\* the request went out after extraction and context building, and markers
\* are substituted and the entry written only after the reply was parsed
RequestOrder ==
    /\ requests >= 1 =>
           /\ placeholders = ExpectedPlaceholders(template)
           /\ plainText = stripXml(ExpectedMarkup(template))
           /\ Len(placeholderContext) = Len(placeholders)
    /\ (si > 0 \/ pc \in {"written", "returned", "done"}) =>
           /\ requests = 1
           /\ batchResponse # NoValue
           /\ parseBatchResponse(batchResponse, placeholderContext).ok
           /\ resolved = parseBatchResponse(batchResponse,
                                            placeholderContext).resolved
    /\ pc \notin {"written", "returned", "done"} =>
           zipEntry \in {NoValue, template}

\* C10 as stated: every call of generateDocxWithLLM issues exactly one
\* completion request, whatever the number of placeholders, never a second
\* one, the request following extraction and context building and preceding
\* every substitution and the write of the markup entry.
C10_ExactlyOneRequestPerCall ==
    /\ requests <= 1
    /\ CallEnded => requests = 1
    /\ RequestOrder

\* C10 amended: no call issues more than one completion request; a call
\* issues exactly one as soon as it has read the container and set up its
\* client, whatever the number of placeholders, and none when it fails before
\* that; the order of request, substitution and write is as stated.
C10_OneRequestOnceSetUp ==
    /\ requests <= 1
    /\ requests = 1 <=> RequestSent
    /\ RequestOrder

\* a run that ended with its output written after one request for two
\* placeholders
C10_Witness ==
    /\ pc = "done"
    /\ requests = 1
    /\ Len(placeholders) = 2
    /\ si = 2
    /\ outputFile = zipEntry

(***************************************************************************)
(* parseBatchResponse on its own, over many replies and sets of known ids   *)
(***************************************************************************)

MaxMembers == 2
MaxKnown == 2

ParseKeys == {phId(1), phId(2), <<"x">>}
ParseValueTexts ==
    {Quote(<<"v">>), <<"7">>, <<"n", "u", "l", "l">>,
     ObjectText(<<<<phId(1), Quote(<<"w">>)>>>>), Quote(<<"v", "}">>)}

\* an object of at most MaxMembers members, bare or between prose, and the
\* malformed replies
ParseReplies ==
    LET objects == {ObjectText(ms) :
                       ms \in UNION {[1..k -> ParseKeys \X ParseValueTexts] :
                                        k \in 0..MaxMembers}}
    IN  {pre \o o \o suf :
            pre \in {<<>>, <<"o", "k", " ">>},
            o \in objects,
            suf \in {<<>>, <<"\n", "}", "{">>}}
        \cup MalformedReplies

\* the contexts of placeholders PH_1..PH_n
KnownContexts(n) ==
    [i \in 1..n |-> [id |-> phId(i), raw |-> <<"a">>,
                     marker |-> markerOf(phId(i)),
                     sentence |-> markerOf(phId(i)),
                     contextWindow |-> markerOf(phId(i))]]

InitParse ==
    /\ pc = "replied"
    /\ batchResponse \in ParseReplies
    /\ placeholderContext \in {KnownContexts(n) : n \in 0..MaxKnown}
    /\ placeholders = [i \in 1..Len(placeholderContext) |->
                          [id |-> placeholderContext[i].id, raw |-> <<"a">>]]
    /\ template = NoValue
    /\ xml = NoValue
    /\ plainText = NoValue
    /\ provider = "openai"
    /\ counter = counterStart
    /\ windowSize = WindowSize
    /\ requests = 1
    /\ json = NoValue
    /\ parsed = <<>>
    /\ resolved = <<>>
    /\ si = 0
    /\ zipEntry = NoValue
    /\ buffer = NoValue
    /\ outputFile = NoValue
    /\ error = "none"

NextParse == ParseBatchResponse

SpecParse == InitParse /\ [][NextParse]_vars

\* C2: whenever the reply parses, the result has exactly one entry per known
\* placeholder id and no other key; an id that the parsed object lacks or
\* gives a non-string maps to the empty string, an id it gives a string maps
\* to that string.
C2_ResolutionComplete ==
    pc = "parsed" =>
        /\ Len(resolved) = Len(placeholderContext)
        /\ \A i \in 1..Len(resolved) :
               LET id   == placeholderContext[i].id
                   hits == {m \in 1..Len(parsed) : parsed[m].key = id}
               IN  /\ resolved[i].id = id
                   /\ hits = {} => resolved[i].value = <<>>
                   /\ hits # {} =>
                          resolved[i].value =
                              IF parsed[MaxOf(hits)].val.t = "string"
                              THEN parsed[MaxOf(hits)].val.s
                              ELSE <<>>

\* two known ids against an object that gives the first a string next to an
\* unknown key and leaves the second out
C2_Witness ==
    /\ pc = "parsed"
    /\ Len(placeholderContext) = 2
    /\ \E m \in 1..Len(parsed) : parsed[m].key = <<"x">>
    /\ resolved = <<[id |-> phId(1), value |-> <<"v">>],
                    [id |-> phId(2), value |-> <<>>]>>

\* 0-based ends e of the well-formed JSON objects that begin at the first "{"
ObjectEnds(text) ==
    LET start == indexOf(text, <<"{">>, 0)
    IN  IF start = -1 THEN {}
        ELSE {e \in (start + 1)..Len(text) :
                 text[e] = "}" /\ JSONParse(slice(text, start, e)).ok}

\* C9: when the text from the first "{" on begins with a well-formed JSON
\* object, extractFirstJsonObject returns exactly that object and
\* parseBatchResponse parses it and returns the strings it holds for the
\* known ids.
C9_FirstObjectExtracted ==
    (pc \in {"parsed", "failed"} /\ ObjectEnds(batchResponse) # {}) =>
        LET start  == indexOf(batchResponse, <<"{">>, 0)
            object == slice(batchResponse, start, MinOf(ObjectEnds(batchResponse)))
            ms     == JSONParse(object).members
        IN  /\ pc = "parsed"
            /\ json = object
            /\ \A i \in 1..Len(placeholderContext) :
                   \A m \in 1..Len(ms) :
                       (/\ ms[m].key = placeholderContext[i].id
                        /\ ms[m].val.t = "string"
                        /\ \A m2 \in (m + 1)..Len(ms) : ms[m2].key # ms[m].key)
                           => resolved[i].value = ms[m].val.s

====
